---- MODULE Spec2Model ----
(***************************************************************************)
(* Model of the shared-expense tracker in src/main.py: the three tables    *)
(* (User, Expense, ExpenseSplit) behind a SQLite store, and the request    *)
(* handlers create_user, create_expense, get_balances, user_report,        *)
(* list_users, list_expenses and clear_all.                                *)
(*                                                                         *)
(* Money is a Python float (IEEE-754 binary64).  A float is modelled       *)
(* EXACTLY as a pair [c, d]: its value is                                  *)
(*        c / 1000  +  d * 2^(-62) / 1000                                  *)
(* c is the decimal the float stands for, in thousandths, and d is the     *)
(* binary representation error, in units of 2^(MinExp - MantBits) / 1000.  *)
(* Every float the handlers can compute from inputs written with at most   *)
(* three decimals has such a pair with a small d, and +, -, abs, round and *)
(* the comparisons are computed on the pairs with the rounding of the      *)
(* hardware (round to nearest, ties to even).                              *)
(***************************************************************************)
EXTENDS Integers, Sequences, FiniteSets, Bags, TLC

\* ------------------------------------------------------------------ floats

\* binary64 has 52 stored mantissa bits; the spacing of the floats in
\* [2^e, 2^(e+1)) is 2^(e - MantBits).
MantBits == 52
\* The amounts are written with three decimals: the smallest nonzero operand
\* is 0.001 >= 2^-FracBits, so MinExp is the smallest binary exponent.
FracBits == 10
MinExp == -FracBits
\* The largest binary exponent the bounded inputs can produce (values < 256).
MaxExp == 7

Pow2(n) == 2 ^ n

\* 2^n modulo 125, by repeated squaring.
RECURSIVE PowMod125(_)
PowMod125(n) ==
    IF n = 0 THEN 1
    ELSE IF n % 2 = 0
         THEN LET h == PowMod125(n \div 2) IN (h * h) % 125
         ELSE (2 * PowMod125(n - 1)) % 125

\* The same as a table, computed once.
Pow2Mod125 == [n \in 0..(MantBits - MinExp) |-> PowMod125(n)]

\* The spacing of the floats of binary exponent e, in units of d, is
\* 1000 * 2^(e - MinExp) = 125 * 2^UlpShift(e).
UlpShift(e) == e - MinExp + 3

\* The exact value of the pair v, in units of d, modulo g = 125 * 2^s:
\* (v.c * 2^(MantBits - MinExp) + v.d) % g.  As s <= MantBits - MinExp the
\* first term is a multiple of 2^s, so it is 2^s * (v.c * 2^(62 - s) % 125).
UnitsMod(v, s) ==
    LET hi == ((v.c % 125) * Pow2Mod125[MantBits - MinExp - s]) % 125
    IN (Pow2(s) * hi + v.d) % (125 * Pow2(s))

FZero == [c |-> 0, d |-> 0]
FNeg(v) == [c |-> -v.c, d |-> -v.d]
FIsNeg(v) == v.c < 0 \/ (v.c = 0 /\ v.d < 0)
FAbs(v) == IF FIsNeg(v) THEN FNeg(v) ELSE v
\* a < b on exact values: |d| is far below one thousandth (2^62 units).
FLess(a, b) == a.c < b.c \/ (a.c = b.c /\ a.d < b.d)

\* 2^e <= c / 1000, for c > 0
GePow2(c, e) == IF e >= 0 THEN c >= 1000 * Pow2(e) ELSE c * Pow2(-e) >= 1000
EqPow2(c, e) == IF e >= 0 THEN c = 1000 * Pow2(e) ELSE c * Pow2(-e) = 1000

\* The binary exponent of the positive exact value v (v.c > 0).
Exponent(v) ==
    LET e == CHOOSE x \in MinExp..MaxExp :
                 GePow2(v.c, x) /\ (x = MaxExp \/ ~GePow2(v.c, x + 1))
    IN IF EqPow2(v.c, e) /\ v.d < 0 THEN e - 1 ELSE e

\* The float nearest to the positive exact value v, ties to even.
RoundPos(v) ==
    LET s == UlpShift(Exponent(v))
        g == 125 * Pow2(s)
        r == UnitsMod(v, s)
    IN IF r = 0 THEN v
       ELSE IF 2 * r < g THEN [v EXCEPT !.d = v.d - r]
       ELSE IF 2 * r > g THEN [v EXCEPT !.d = v.d + (g - r)]
       ELSE IF UnitsMod(v, s + 1) = r THEN [v EXCEPT !.d = v.d - r]
       ELSE [v EXCEPT !.d = v.d + (g - r)]

\* The float nearest to the exact value v.  A value with c = 0 is a
\* difference of floats of exponent >= MinExp and is a float already.
ToFloat(v) ==
    IF v.c = 0 THEN v
    ELSE IF v.c < 0 THEN FNeg(RoundPos(FNeg(v)))
    ELSE RoundPos(v)

\* float("k/1000"): the float nearest to the decimal k thousandths.
FromMilli(k) == ToFloat([c |-> k, d |-> 0])

\* a + b and a - b in binary64.
FAdd(a, b) == ToFloat([c |-> a.c + b.c, d |-> a.d + b.d])
FSub(a, b) == FAdd(a, FNeg(b))

\* Python's round(x, 2) of a float x >= 0: the decimal with two places
\* nearest to the exact value of x (ties to even), then the float nearest
\* to that decimal.
RoundPos2(v) ==
    LET q == v.c \div 10
        r == v.c % 10
        up == \/ r > 5
              \/ r = 5 /\ v.d > 0
              \/ r = 5 /\ v.d = 0 /\ q % 2 = 1
    IN FromMilli(10 * (IF up THEN q + 1 ELSE q))

round2(v) == IF FIsNeg(v) THEN FNeg(RoundPos2(FNeg(v))) ELSE RoundPos2(v)

\* ------------------------------------------------------------------ bounds

\* At most MaxUsers user rows, MaxExpenses expense rows, and MaxSplits
\* entries in the splits list of one request.
MaxUsers == 2
MaxExpenses == 2
MaxSplits == 2
\* At most MaxInFlight requests are in flight at once.
MaxInFlight == 2

\* ------------------------------------------------------------------ values

\* A text is a sequence of Unicode code points: "a" is <<97>>, " a" is
\* <<32, 97>>.

\* The code points str.strip() removes: those for which str.isspace() holds
\* (tab, newline, vertical tab, form feed, carriage return, the separators
\* 28-31, space, U+0085, U+00A0, U+1680, U+2000-U+200A, U+2028, U+2029,
\* U+202F, U+205F, U+3000).
Whitespace ==
    {9, 10, 11, 12, 13, 28, 29, 30, 31, 32, 133, 160, 5760} \cup (8192..8202)
        \cup {8232, 8233, 8239, 8287, 12288}

RECURSIVE lstrip(_)
lstrip(s) == IF s # <<>> /\ Head(s) \in Whitespace THEN lstrip(Tail(s)) ELSE s
RECURSIVE rstrip(_)
rstrip(s) ==
    IF s # <<>> /\ s[Len(s)] \in Whitespace THEN rstrip(SubSeq(s, 1, Len(s) - 1)) ELSE s
\* str.strip()
strip(s) == rstrip(lstrip(s))

\* The literal 0.01 of the tolerance test.
Tolerance == FromMilli(10)

\* The largest element of a nonempty set of integers.
MaxOf(S) == CHOOSE x \in S : \A y \in S : y <= x
MinOf(S) == CHOOSE x \in S : \A y \in S : x <= y

\* SQLite's rowid of a new row of an INTEGER PRIMARY KEY table.
NextId(rows) == IF rows = {} THEN 1 ELSE MaxOf({r.id : r \in rows}) + 1

\* The rows of a table in rowid order (the order of an unordered scan).
RECURSIVE ById(_)
ById(rows) ==
    IF rows = {} THEN <<>>
    ELSE LET m == CHOOSE r \in rows : \A q \in rows : r.id <= q.id
         IN <<m>> \o ById(rows \ {m})

Reverse(s) == [i \in 1..Len(s) |-> s[Len(s) + 1 - i]]

\* [f(x) for x in s if p(x)] is written SelectSeq and a sequence function.

\* sum(...) of a sequence of floats: left to right, starting from the int 0
\* (0 + x is x).
RECURSIVE FSumFrom(_, _)
FSumFrom(acc, s) == IF s = <<>> THEN acc ELSE FSumFrom(FAdd(acc, Head(s)), Tail(s))
FSum(s) == FSumFrom(FZero, s)

\* ------------------------------------------------------------------- state

VARIABLES
    users,      \* table user: rows [id, username, email]
    expenses,   \* table expense: rows [id, description, amount, currency, payer_id]
    splits,     \* table expense_split: rows [id, expense_id, user_id, amount, percentage]
    resp,       \* the last response sent: [op, status, args, body]
    req,        \* the create_expense request under test (SpecSplit), else NoReq
    thr         \* the bag of requests in flight between two statements (SpecConc)

store == <<users, expenses, splits>>
vars == <<users, expenses, splits, resp, req, thr>>

Response(op, status, args, body) ==
    [op |-> op, status |-> status, args |-> args, body |-> body]
Error(msg) == [error |-> msg]

InternalError == Error("Internal Server Error")

\* The committed tables are all a request reads.  A write needs SQLite's
\* write lock, which a clear_all holds from its first DELETE to its commit
\* (a writer that finds the lock taken waits for it).
WriteLockFree == \A t \in BagToSet(thr) : t.op # "clear_all"

\* ------------------------------------------------------------------- users

list_users_body(us) ==
    LET rows == ById(us)
    IN [i \in 1..Len(rows) |->
           [id |-> rows[i].id, username |-> rows[i].username, email |-> rows[i].email]]

\* list_users, lines 45-46: one SELECT
list_users ==
    /\ resp' = Response("list_users", 200, <<>>, list_users_body(users))
    /\ UNCHANGED <<users, expenses, splits, req, thr>>

\* A duplicate check that looks at the username only.
UserTakenByName(us, username, email) ==
    \E u \in us : u.username = username

\* User.query.filter((User.username == username) | (User.email == email)).first()
UserTaken(us, username, email) ==
    \E u \in us : u.username = username \/ u.email = email

\* ---------------------------------------------------------------- balances

\* The amounts of a set of rows, in rowid order.
Amounts(rows) == [i \in 1..Cardinality(rows) |-> ById(rows)[i].amount]

\* Balances whose totals are the accumulators as they are, not rounded.
get_balances_unrounded(us, es, ss) ==
    LET paid(uid) == FSum(Amounts({e \in es : e.payer_id = uid}))
        owes(uid) == FSum(Amounts({x \in ss : x.user_id = uid}))
    IN [uid \in {u.id : u \in us} |->
           [user_id |-> uid,
            username |-> (CHOOSE u \in us : u.id = uid).username,
            total_paid |-> paid(uid),
            total_owes |-> owes(uid),
            net_balance |-> FSub(paid(uid), owes(uid))]]

\* lines 156-184: the answer of get_balances on the rows us, es and ss its
\* three SELECTs return.
get_balances_body(us, es, ss) ==
    LET paid(uid) == FSum(Amounts({e \in es : e.payer_id = uid}))
        owes(uid) == FSum(Amounts({x \in ss : x.user_id = uid}))
        row(u) ==
            LET total_paid == round2(paid(u.id))
                total_owes == round2(owes(u.id))
            IN [user_id |-> u.id,
                username |-> u.username,
                total_paid |-> total_paid,
                total_owes |-> total_owes,
                net_balance |-> round2(FSub(total_paid, total_owes))]
    IN [uid \in {u.id : u \in us} |-> row(CHOOSE u \in us : u.id = uid)]

\* ------------------------------------------------------------------ reports

split_dict(x) ==
    [id |-> x.id, user_id |-> x.user_id,
     amount |-> round2(x.amount), percentage |-> x.percentage]

\* e.splits, loaded when first read: the rows of expense_split with the id of
\* e, in rowid order.  A row whose id the session has loaded already
\* (loaded) is the object the session holds, with the values it was loaded
\* with.
own_splits(e, ss, loaded) ==
    LET ids == {x.id : x \in {y \in ss : y.expense_id = e.id}}
        obj(i) == IF \E l \in loaded : l.id = i
                  THEN CHOOSE l \in loaded : l.id = i
                  ELSE CHOOSE x \in ss : x.id = i
    IN ById({obj(i) : i \in ids})

\* lines 70-77: the entry of the expense e whose splits are own
expense_dict(e, own) ==
    [id |-> e.id,
     description |-> e.description,
     amount |-> round2(e.amount),
     currency |-> e.currency,
     payer_id |-> e.payer_id,
     splits |-> [j \in 1..Len(own) |-> split_dict(own[j])]]

\* The answer of list_expenses when all its reads are of the tables es, ss.
list_expenses_body(es, ss) ==
    LET rows == Reverse(ById(es))
    IN [i \in 1..Len(rows) |-> expense_dict(rows[i], own_splits(rows[i], ss, {}))]

NotFound == Error("user not found")

\* A join that takes the oldest expense whatever the split row.
OldestExpense(es, x) == CHOOSE e \in es : \A q \in es : e.id <= q.id

\* s.expense of a split row: the expense of es with the id the row names
ExpenseOf(es, x) == CHOOSE e \in es : e.id = x.expense_id

\* lines 193-194: the entry of an expense the user paid
paid_entry(e) ==
    [description |-> e.description, amount |-> round2(e.amount), currency |-> e.currency]

\* lines 197-202: the entry of the split row x, whose s.expense is e
owes_entry(x, e) ==
    [description |-> e.description, amount |-> round2(x.amount),
     currency |-> e.currency, percentage |-> x.percentage]

\* ----------------------------------------------------------------- expenses

\* A JSON scalar of a request body: a number written with at most three
\* decimals (v thousandths), a string that is no number, or null.
Num(k) == [t |-> "num", v |-> k]
Str == [t |-> "str", v |-> 0]
JsonNull == [t |-> "null", v |-> 0]

\* A stored percentage: None or a float.
PctNone == [t |-> "null", f |-> FZero]
PctFloat(x) == [t |-> "num", f |-> x]

required == {"description", "amount", "currency", "payer_id", "splits"}

\* No request under test: a body without any key.
NoReq == [absent |-> required]

\* A create_expense request body r: [absent, description, amount, currency,
\* payer_id, splits]; absent is the set of keys the body lacks, and splits
\* is a sequence of [user_id, amount, percentage], amount in thousandths.

\* lines 82-96: "ok" or the error of the first failing check
parse_request(r) ==
    IF r.absent \cap required # {} THEN "missing fields"
    ELSE IF r.amount.t # "num" THEN "invalid amount"
    ELSE IF ~FLess(FZero, FromMilli(r.amount.v)) \/ r.splits = <<>>
         THEN "invalid split/amount"
    ELSE "ok"

\* line 99: User.query.get(payer_id)
payer_exists(us, r) == \E u \in us : u.id = r.payer_id

\* line 101: {int(s['user_id']) for s in splits}
user_ids(r) == {r.splits[i].user_id : i \in 1..Len(r.splits)}

\* line 106: round(sum(float(s['amount']) for s in splits), 2)
total_split(r) ==
    round2(FSum([i \in 1..Len(r.splits) |-> FromMilli(r.splits[i].amount)]))

\* round(amount, 2)
rounded_amount(r) == round2(FromMilli(r.amount.v))

\* line 107: abs(total_split - round(amount, 2)) > 0.01
split_mismatch(r) ==
    FLess(Tolerance, FAbs(FSub(total_split(r), rounded_amount(r))))

\* line 110: the Expense row; the float is stored as given (SQLite keeps a
\* REAL in an INTEGER column when it is no whole number, and a whole number
\* reads back as the same value).
expense_row(es, r) ==
    [id |-> NextId(es),
     description |-> strip(r.description),
     amount |-> FromMilli(r.amount.v),
     currency |-> r.currency,
     payer_id |-> r.payer_id]

\* line 118: float(s['percentage']) raises ValueError on a non-number
bad_percentage(r) == \E i \in 1..Len(r.splits) : r.splits[i].percentage.t = "str"

\* lines 113-119: one ExpenseSplit row per entry of the list
split_rows(ss, expense_id, r) ==
    {[id |-> NextId(ss) + i - 1,
      expense_id |-> expense_id,
      user_id |-> r.splits[i].user_id,
      amount |-> FromMilli(r.splits[i].amount),
      percentage |-> IF r.splits[i].percentage.t = "null" THEN PctNone
                     ELSE PctFloat(FromMilli(r.splits[i].percentage.v))]
     : i \in 1..Len(r.splits)}

\* A write_expense that commits each row as it is added: an exception at
\* entry k leaves the expense and the k - 1 rows before it.
write_expense_autocommit(es, ss, r) ==
    LET e == expense_row(es, r)
        bad == {i \in 1..Len(r.splits) : r.splits[i].percentage.t = "str"}
        k == IF bad = {} THEN Len(r.splits) + 1
             ELSE CHOOSE i \in bad : \A j \in bad : i <= j
        rows == {x \in split_rows(ss, e.id, r) : x.id < NextId(ss) + k - 1}
    IN [status |-> IF bad = {} THEN 201 ELSE 500,
        body |-> IF bad = {} THEN [id |-> e.id] ELSE InternalError,
        expenses |-> es \cup {e},
        splits |-> ss \cup rows]

\* lines 110-121: the rows are added to the session and reach the tables at
\* the commit of line 120; an exception before it ends the request with a
\* 500 and the session is discarded with its pending rows.
write_expense(es, ss, r) ==
    IF bad_percentage(r)
    THEN [status |-> 500, body |-> InternalError,
          expenses |-> es, splits |-> ss]
    ELSE LET e == expense_row(es, r)
         IN [status |-> 201, body |-> [id |-> e.id],
             expenses |-> es \cup {e},
             splits |-> ss \cup split_rows(ss, e.id, r)]

\* clear_all: the three DELETE statements and the commit.  The tables whose
\* rows are gone from the committed store after statement n of the handler
\* (1, 2, 3: the deletes of lines 209-211; 4: the commit of line 212).
Cleared(n) == IF n = 4 THEN {"expense_split", "expense", "user"} ELSE {}

AfterClear(table, rows, n) == IF table \in Cleared(n) THEN {} ELSE rows

\* ------------------------------------------------- requests that overlap

\* The server handles each request on a thread of its own, with a session
\* and a SQLite connection of its own.  A SELECT reads the committed tables
\* as they are when it runs (the driver opens no transaction for a SELECT);
\* the first INSERT or DELETE of a request opens a transaction and takes the
\* write lock, and the rows it changes become visible to the other requests
\* at its commit.  A commit expires the objects of the session: the next
\* read of an attribute reads the row again.
\*
\* thr is the bag of the requests in flight, each a record [op, pc, ...]:
\* pc names the statement the request runs next, and the other fields are
\* what the request has read so far.  A step runs one statement of one
\* request, with the local computation up to the next statement.

Readers == {"get_balances", "list_expenses", "user_report"}

\* A new request can be taken up.
CanStart == BagCardinality(thr) < MaxInFlight

\* The reads change nothing, so that one read in flight with another shows
\* nothing one alone does not: one at a time is followed.
NoReader == \A t \in BagToSet(thr) : t.op \notin Readers

InFlight(op, pc) == {t \in BagToSet(thr) : t.op = op /\ t.pc = pc}

Start(t) == thr' = thr (+) SetToBag({t})
Move(t, u) == thr' = (thr (-) SetToBag({t})) (+) SetToBag({u})
Finish(t) == thr' = thr (-) SetToBag({t})

\* create_user, lines 50-56: the values are stripped and the duplicate is
\* looked up.
create_user_check(raw_username, raw_email) ==
    LET username == strip(raw_username)
        email == strip(raw_email)
        args == [username |-> raw_username, email |-> raw_email]
    IN /\ CanStart
       /\ IF username = <<>> \/ email = <<>>
          THEN /\ resp' = Response("create_user", 400, args,
                                   Error("username and email required"))
               /\ UNCHANGED thr
          ELSE IF UserTaken(users, username, email)
          THEN /\ resp' = Response("create_user", 400, args,
                                   Error("username or email already exists"))
               /\ UNCHANGED thr
          ELSE /\ Cardinality(users) < MaxUsers
               /\ Start([op |-> "create_user", pc |-> "insert", args |-> args])
               /\ UNCHANGED resp
       /\ UNCHANGED <<users, expenses, splits, req>>

\* create_user, lines 57-59: INSERT and COMMIT.  The columns username and
\* email are unique (lines 14-15): a row that another request has committed
\* since the lookup makes the INSERT fail, and the request ends with a 500.
create_user_commit ==
    \E t \in InFlight("create_user", "insert") :
        LET username == strip(t.args.username)
            email == strip(t.args.email)
            u == [id |-> NextId(users), username |-> username, email |-> email]
        IN /\ WriteLockFree
           /\ IF UserTaken(users, username, email)
              THEN /\ resp' = Response("create_user", 500, t.args, InternalError)
                   /\ Finish(t)
                   /\ UNCHANGED users
              ELSE /\ Cardinality(users) < MaxUsers
                   /\ users' = users \cup {u}
                   /\ Move(t, [op |-> "create_user", pc |-> "read",
                               args |-> t.args, id |-> u.id])
                   /\ UNCHANGED resp
           /\ UNCHANGED <<expenses, splits, req>>

\* create_user, line 60: u.id, u.username and u.email are read again from
\* the row with the id of u; the row gone is a 500.
create_user_read ==
    \E t \in InFlight("create_user", "read") :
        /\ IF \E u \in users : u.id = t.id
           THEN resp' = Response("create_user", 201, t.args,
                                 CHOOSE u \in users : u.id = t.id)
           ELSE resp' = Response("create_user", 500, t.args, InternalError)
        /\ Finish(t)
        /\ UNCHANGED <<users, expenses, splits, req>>

\* create_expense, lines 82-100: the body is parsed and the payer is looked
\* up.
begin_create_expense(r) ==
    /\ CanStart
    /\ Cardinality(expenses) < MaxExpenses
    /\ IF parse_request(r) # "ok"
       THEN /\ resp' = Response("create_expense", 400, <<>>, Error(parse_request(r)))
            /\ UNCHANGED thr
       ELSE IF ~payer_exists(users, r)
       THEN /\ resp' = Response("create_expense", 400, <<>>, Error("invalid payer"))
            /\ UNCHANGED thr
       ELSE /\ Start([op |-> "create_expense", pc |-> "users", r |-> r,
                      todo |-> user_ids(r)])
            /\ UNCHANGED resp
    /\ UNCHANGED <<users, expenses, splits, req>>

\* create_expense, line 102: one User.query.get(uid) of the any(...), the
\* ids taken in the order of the set.  No user looked up before is kept (the
\* session holds an object only while the handler does), so that each get
\* reads the table.  After the last lookup, lines 105-108 compare the
\* totals.
check_split_user ==
    \E t \in InFlight("create_expense", "users") :
        LET uid == MinOf(t.todo)
            rest == t.todo \ {uid}
        IN /\ IF ~\E u \in users : u.id = uid
              THEN /\ resp' = Response("create_expense", 400, <<>>,
                                       Error("one or more split users are invalid"))
                   /\ Finish(t)
              ELSE IF rest # {}
              THEN /\ Move(t, [t EXCEPT !.todo = rest])
                   /\ UNCHANGED resp
              ELSE IF split_mismatch(t.r)
              THEN /\ resp' = Response("create_expense", 400, <<>>,
                                       Error("split totals do not equal amount"))
                   /\ Finish(t)
              ELSE /\ Move(t, [op |-> "create_expense", pc |-> "write", r |-> t.r])
                   /\ UNCHANGED resp
           /\ UNCHANGED <<users, expenses, splits, req>>

\* create_expense, lines 110-120: the flush takes the write lock, and the
\* rows are committed together.
flush_and_commit ==
    \E t \in InFlight("create_expense", "write") :
        LET out == write_expense(expenses, splits, t.r)
        IN /\ WriteLockFree
           /\ Cardinality(expenses) < MaxExpenses
           /\ expenses' = out.expenses
           /\ splits' = out.splits
           /\ IF out.status = 201
              THEN /\ Move(t, [op |-> "create_expense", pc |-> "read",
                               id |-> out.body.id])
                   /\ UNCHANGED resp
              ELSE /\ resp' = Response("create_expense", out.status, <<>>, out.body)
                   /\ Finish(t)
           /\ UNCHANGED <<users, req>>

\* create_expense, line 121: e.id is read again from the row with the id of
\* e; the row gone is a 500.
create_expense_read ==
    \E t \in InFlight("create_expense", "read") :
        /\ IF \E e \in expenses : e.id = t.id
           THEN resp' = Response("create_expense", 201, <<>>, [id |-> t.id])
           ELSE resp' = Response("create_expense", 500, <<>>, InternalError)
        /\ Finish(t)
        /\ UNCHANGED <<users, expenses, splits, req>>

\* get_balances, lines 155-156: SELECT user
get_balances_users ==
    /\ CanStart /\ NoReader
    /\ Start([op |-> "get_balances", pc |-> "expenses", us |-> users])
    /\ UNCHANGED <<users, expenses, splits, resp, req>>

\* get_balances, lines 159-162: SELECT expense
get_balances_expenses ==
    \E t \in InFlight("get_balances", "expenses") :
        /\ Move(t, [op |-> "get_balances", pc |-> "splits",
                    us |-> t.us, es |-> expenses])
        /\ UNCHANGED <<users, expenses, splits, resp, req>>

\* get_balances, lines 165-184: SELECT expense_split, and the answer
get_balances_splits ==
    \E t \in InFlight("get_balances", "splits") :
        /\ resp' = Response("get_balances", 200, <<>>,
                            get_balances_body(t.us, t.es, splits))
        /\ Finish(t)
        /\ UNCHANGED <<users, expenses, splits, req>>

\* list_expenses, lines 65-68: SELECT expense
list_expenses_rows ==
    /\ CanStart /\ NoReader
    /\ IF expenses = {}
       THEN /\ resp' = Response("list_expenses", 200, <<>>, <<>>)
            /\ UNCHANGED thr
       ELSE /\ Start([op |-> "list_expenses", pc |-> "splits",
                      rows |-> Reverse(ById(expenses)), out |-> <<>>, loaded |-> {}])
            /\ UNCHANGED resp
    /\ UNCHANGED <<users, expenses, splits, req>>

\* list_expenses, lines 69-78: the SELECT of e.splits of the next expense,
\* and the answer after the last one
list_expenses_splits ==
    \E t \in InFlight("list_expenses", "splits") :
        LET e == t.rows[Len(t.out) + 1]
            own == own_splits(e, splits, t.loaded)
            out == Append(t.out, expense_dict(e, own))
        IN /\ IF Len(out) = Len(t.rows)
              THEN /\ resp' = Response("list_expenses", 200, <<>>, out)
                   /\ Finish(t)
              ELSE /\ Move(t, [t EXCEPT !.out = out,
                                        !.loaded = @ \cup {own[j] : j \in 1..Len(own)}])
                   /\ UNCHANGED resp
           /\ UNCHANGED <<users, expenses, splits, req>>

\* user_report, lines 189-191: User.query.get(user_id)
user_report_user(user_id) ==
    /\ CanStart /\ NoReader
    /\ IF ~\E u \in users : u.id = user_id
       THEN /\ resp' = Response("user_report", 404, user_id, NotFound)
            /\ UNCHANGED thr
       ELSE /\ Start([op |-> "user_report", pc |-> "paid", user_id |-> user_id])
            /\ UNCHANGED resp
    /\ UNCHANGED <<users, expenses, splits, req>>

\* user_report, lines 193-194: SELECT expense WHERE payer_id = user_id
user_report_paid ==
    \E t \in InFlight("user_report", "paid") :
        LET mine == ById({e \in expenses : e.payer_id = t.user_id})
        IN /\ Move(t, [op |-> "user_report", pc |-> "owed", user_id |-> t.user_id,
                       paid |-> [i \in 1..Len(mine) |-> paid_entry(mine[i])]])
           /\ UNCHANGED <<users, expenses, splits, resp, req>>

\* user_report, line 196: SELECT expense_split WHERE user_id = user_id
user_report_owed ==
    \E t \in InFlight("user_report", "owed") :
        LET owed_splits == ById({x \in splits : x.user_id = t.user_id})
        IN /\ IF owed_splits = <<>>
              THEN /\ resp' = Response("user_report", 200, t.user_id,
                                       [paid |-> t.paid, owes |-> <<>>])
                   /\ Finish(t)
              ELSE /\ Move(t, [op |-> "user_report", pc |-> "expense",
                               user_id |-> t.user_id, paid |-> t.paid,
                               owed |-> owed_splits,
                               owes |-> <<>>, held |-> {}])
                   /\ UNCHANGED resp
           /\ UNCHANGED <<users, expenses, splits, req>>

\* No row: the None of a lookup that finds nothing.
NoRow == [id |-> 0]

\* user_report, lines 197-204: s.expense of the next split row, and the
\* answer after the last one.  An expense an earlier split row holds (held)
\* is that object (the expenses of line 194 are held no more); otherwise the
\* row with the id is read, and None.description is a 500.
user_report_expense ==
    \E t \in InFlight("user_report", "expense") :
        LET x == t.owed[Len(t.owes) + 1]
            same(rows) == {e \in rows : e.id = x.expense_id}
            e == IF same(t.held) # {} THEN ExpenseOf(t.held, x)
                 ELSE IF same(expenses) # {} THEN ExpenseOf(expenses, x)
                 ELSE NoRow
            owes == Append(t.owes, owes_entry(x, e))
        IN /\ IF e = NoRow
              THEN /\ resp' = Response("user_report", 500, t.user_id, InternalError)
                   /\ Finish(t)
              ELSE IF Len(owes) = Len(t.owed)
              THEN /\ resp' = Response("user_report", 200, t.user_id,
                                       [paid |-> t.paid, owes |-> owes])
                   /\ Finish(t)
              ELSE /\ Move(t, [t EXCEPT !.owes = owes, !.held = @ \cup {e}])
                   /\ UNCHANGED resp
           /\ UNCHANGED <<users, expenses, splits, req>>

\* clear_all, line 209: the first DELETE opens the transaction and takes
\* the write lock.
clear_begin ==
    /\ CanStart
    /\ WriteLockFree
    /\ splits' = AfterClear("expense_split", splits, 1)
    /\ expenses' = AfterClear("expense", expenses, 1)
    /\ users' = AfterClear("user", users, 1)
    /\ Start([op |-> "clear_all", pc |-> "delete", n |-> 1])
    /\ UNCHANGED <<resp, req>>

\* clear_all, lines 210-211: the next DELETE
clear_delete ==
    \E t \in InFlight("clear_all", "delete") :
        /\ t.n < 3
        /\ splits' = AfterClear("expense_split", splits, t.n + 1)
        /\ expenses' = AfterClear("expense", expenses, t.n + 1)
        /\ users' = AfterClear("user", users, t.n + 1)
        /\ Move(t, [t EXCEPT !.n = @ + 1])
        /\ UNCHANGED <<resp, req>>

\* clear_all, lines 212-213: the commit and the answer
clear_commit ==
    \E t \in InFlight("clear_all", "delete") :
        /\ t.n = 3
        /\ splits' = AfterClear("expense_split", splits, 4)
        /\ expenses' = AfterClear("expense", expenses, 4)
        /\ users' = AfterClear("user", users, 4)
        /\ resp' = Response("clear_all", 200, <<>>, [status |-> "cleared"])
        /\ Finish(t)
        /\ UNCHANGED req

\* ------------------------------------------------------------------ inputs

\* The sequences of at most n elements of S.
SeqsUpTo(S, n) == UNION {[1..k -> S] : k \in 0..n}

\* The create_user requests, <<username, email>>, of the specification of
\* the users: "a", "x" and "A", "y" (usernames that differ in case only),
\* the username "a" between a tab and a no-break space with the email of the
\* second, and a username of a space and a newline.
UserInputs ==
    {<< <<97>>, <<120>> >>, << <<65>>, <<121>> >>,
     << <<9, 97, 160>>, <<121>> >>, << <<32, 10>>, <<120>> >>}

\* The ids a request names: those the user table can hold and one more.
UserIds == 1..(MaxUsers + 1)

SplitEntries(uids, amounts, percentages) ==
    [user_id : uids, amount : amounts, percentage : percentages]

\* labels is a set of <<description, currency>>.
Requests(absents, labels, amounts, payers, entries) ==
    {[absent |-> ab, description |-> l[1], amount |-> am, currency |-> l[2],
      payer_id |-> p, splits |-> sp] :
        ab \in absents, l \in labels, am \in amounts, p \in payers,
        sp \in SeqsUpTo(entries, MaxSplits)}

USD == <<85, 83, 68>>
EUR == <<69, 85, 82>>

\* The requests of the specification of the ledger: 2.00 paid by user 1 and
\* owed by user 1, as 1.00 + 1.00 or as one share of 2.004 or of 2.014,
\* under the description "d" and under a description of a tab and a space.
BasicRequests ==
    Requests({{}}, {<<<<100>>, USD>>, <<<<9, 32>>, EUR>>}, {Num(2000)}, {1},
             SplitEntries({1}, {1000, 2004, 2014}, {JsonNull}))

\* The requests of the specification of the reports: 2.00 paid by user 1 and
\* owed by user 1 in one share or in two, under the description "d" and
\* under a description of a tab and a space.
ReportRequests ==
    Requests({{}}, {<<<<100>>, USD>>, <<<<9, 32>>, EUR>>}, {Num(2000)}, {1},
             SplitEntries({1}, {1000, 2000}, {JsonNull}))

\* The create_user requests of the specifications of the ledger and of the
\* reports: "a", "x".
BasicUsers == {<< <<97>>, <<120>> >>}

\* The requests of the specification of the split totals: every way to
\* fail, and the totals 2.00 and 30.00 met exactly, by a cent less and by
\* half a cent less.
SplitRequests ==
    Requests({{}, {"amount"}}, {<<<<100>>, USD>>},
             {Str, Num(0), Num(2000), Num(30000)}, {1, MaxUsers + 1},
             SplitEntries({1, MaxUsers + 1},
                          {990, 1000, 14995, 15000, 29500, 29995},
                          {JsonNull, Str}))

\* The requests of the concurrent specification: 2.00 paid by user 1, in
\* shares of 1.00 and 2.00 owed by user 1 and by user 2, whom no request
\* creates, the percentage absent or not a number; and the requests without
\* an amount, or with an amount that is no number or is 0.
ConcRequests ==
    Requests({{}}, {<<<<100>>, USD>>}, {Num(2000)}, {1},
             SplitEntries({1, 2}, {1000, 2000}, {JsonNull})
                \cup SplitEntries({1}, {2000}, {Str}))
      \cup Requests({{}, {"amount"}}, {<<<<100>>, USD>>}, {Str, Num(0)}, {1},
                    SplitEntries({1}, {2000}, {JsonNull}))

\* The create_user requests of the concurrent specification: "a", "x", and
\* a username of a space and a newline.
ConcUsers == {<< <<97>>, <<120>> >>, << <<32, 10>>, <<120>> >>}

\* The user table after create_user("a", "x") and create_user("A", "y").
TwoUsers ==
    {[id |-> 1, username |-> <<97>>, email |-> <<120>>],
     [id |-> 2, username |-> <<65>>, email |-> <<121>>]}

\* ----------------------------------------------------------- specification

\* Every specification runs the handlers statement by statement, up to
\* MaxInFlight requests in flight, in any order of their statements; they
\* differ in the requests that are sent.

Init == /\ users = {} /\ expenses = {} /\ splits = {}
        /\ resp = Response("none", 0, <<>>, <<>>)
        /\ req = NoReq /\ thr = EmptyBag

\* The ledger: the requests of BasicUsers and BasicRequests, clear_all and
\* get_balances.
Next ==
    \/ \E u \in BasicUsers : create_user_check(u[1], u[2])
    \/ create_user_commit
    \/ create_user_read
    \/ \E r \in BasicRequests : begin_create_expense(r)
    \/ check_split_user
    \/ flush_and_commit
    \/ create_expense_read
    \/ clear_begin
    \/ clear_delete
    \/ clear_commit
    \/ get_balances_users
    \/ get_balances_expenses
    \/ get_balances_splits
Spec == Init /\ [][Next]_vars

\* The reports: the requests of BasicUsers and ReportRequests, clear_all and
\* user_report.
NextReport ==
    \/ \E u \in BasicUsers : create_user_check(u[1], u[2])
    \/ create_user_commit
    \/ create_user_read
    \/ \E r \in ReportRequests : begin_create_expense(r)
    \/ check_split_user
    \/ flush_and_commit
    \/ create_expense_read
    \/ clear_begin
    \/ clear_delete
    \/ clear_commit
    \/ \E uid \in UserIds : user_report_user(uid)
    \/ user_report_paid
    \/ user_report_owed
    \/ user_report_expense
SpecReport == Init /\ [][NextReport]_vars

\* The users: the create_user requests of UserInputs, list_users and
\* clear_all.
NextUsers ==
    \/ \E u \in UserInputs : create_user_check(u[1], u[2])
    \/ create_user_commit
    \/ create_user_read
    \/ list_users
    \/ clear_begin
    \/ clear_delete
    \/ clear_commit
SpecUsers == Init /\ [][NextUsers]_vars

\* The split totals: one create_expense request, drawn from
\* SplitRequests, is sent (and sent again) to a store that holds two users.
InitSplit ==
    /\ users = TwoUsers /\ expenses = {} /\ splits = {}
    /\ resp = Response("none", 0, <<>>, <<>>)
    /\ req \in SplitRequests /\ thr = EmptyBag
NextSplit ==
    \/ begin_create_expense(req) /\ req # NoReq
    \/ check_split_user
    \/ flush_and_commit
    \/ create_expense_read
SpecSplit == InitSplit /\ [][NextSplit]_vars

\* The overlap of writes: the requests of ConcUsers and ConcRequests, and
\* every read.
NextConc ==
    \/ \E u \in ConcUsers : create_user_check(u[1], u[2])
    \/ \E r \in ConcRequests : begin_create_expense(r)
    \/ clear_begin
    \/ list_users
    \/ get_balances_users
    \/ list_expenses_rows
    \/ \E uid \in 1..MaxUsers : user_report_user(uid)
    \/ create_user_commit
    \/ create_user_read
    \/ check_split_user
    \/ flush_and_commit
    \/ create_expense_read
    \/ clear_delete
    \/ clear_commit
    \/ get_balances_expenses
    \/ get_balances_splits
    \/ list_expenses_splits
    \/ user_report_paid
    \/ user_report_owed
    \/ user_report_expense
SpecConc == Init /\ [][NextConc]_vars

\* -------------------------------------------------------------- properties

Abs(x) == IF x < 0 THEN -x ELSE x

\* The exact decimal sum, in thousandths, of the amounts of a set of rows.
RECURSIVE DecSum(_)
DecSum(rows) ==
    IF rows = {} THEN 0
    ELSE LET r == CHOOSE x \in rows : TRUE
         IN r.amount.c + DecSum(rows \ {r})

SplitsOf(e) == {x \in splits : x.expense_id = e.id}
PaidBy(uid) == {e \in expenses : e.payer_id = uid}
OwedBy(uid) == {x \in splits : x.user_id = uid}

\* C1: every stored expense's split amounts, summed exactly as submitted,
\* are within 0.01 of its amount.
C1_SplitsSumToAmount ==
    \A e \in expenses : Abs(DecSum(SplitsOf(e)) - e.amount.c) <= 10

\* C4: no stored expense has a description that is empty after trimming.
C4_NoBlankDescription ==
    \A e \in expenses : e.description # <<>>

IsCents(v) == v.c % 10 = 0 /\ v = FromMilli(v.c)

\* The body b has one record per user of us, whose totals are amounts in
\* whole cents within half a cent of the exact sums of the expenses of es the
\* user paid and of the splits of ss the user owes, whose net_balance is the
\* exact difference of the two totals, and which is 0, 0, 0 for a user
\* without expenses and splits.
RoundedTotals(b, us, es, ss) ==
    /\ DOMAIN b = {u.id : u \in us}
    /\ \A u \in us :
         LET r == b[u.id]
             paid == {e \in es : e.payer_id = u.id}
             owed == {x \in ss : x.user_id = u.id}
         IN /\ r.user_id = u.id /\ r.username = u.username
            /\ IsCents(r.total_paid) /\ IsCents(r.total_owes) /\ IsCents(r.net_balance)
            /\ Abs(r.total_paid.c - DecSum(paid)) <= 5
            /\ Abs(r.total_owes.c - DecSum(owed)) <= 5
            /\ r.net_balance.c = r.total_paid.c - r.total_owes.c
            /\ (paid = {} /\ owed = {}) =>
                  (r.total_paid = FZero /\ r.total_owes = FZero /\ r.net_balance = FZero)

RECURSIVE SumOver(_, _)
SumOver(f, D) ==
    IF D = {} THEN 0
    ELSE LET x == CHOOSE y \in D : TRUE IN f[x] + SumOver(f, D \ {x})

\* C6: the net balances of all users sum to zero within 0.01 per stored
\* expense.
C6_Conservation ==
    LET b == get_balances_body(users, expenses, splits)
        net == [uid \in DOMAIN b |-> b[uid].net_balance.c]
    IN Abs(SumOver(net, DOMAIN b)) <= 10 * Cardinality(expenses)

\* The usernames are pairwise different, and so are the emails.
UniqueUsers(us) ==
    \A u, v \in us : (u.username = v.username \/ u.email = v.email) => u = v

DuplicateError == Error("username or email already exists")
RequiredError == Error("username and email required")

PaidEntry(e) ==
    [description |-> e.description, amount |-> round2(e.amount), currency |-> e.currency]
OwesEntry(x, e) ==
    [description |-> e.description, amount |-> round2(x.amount),
     currency |-> e.currency, percentage |-> x.percentage]

\* The user_report requests in flight in the bag b.
Reports(b) == {t \in BagToSet(b) : t.op = "user_report"}

\* The paid list of the claim: one entry per stored expense the user paid.
PaidList(uid) ==
    LET mine == ById(PaidBy(uid))
    IN [i \in 1..Len(mine) |-> PaidEntry(mine[i])]

\* The owes list of the claim: one entry per stored split the user owes,
\* with the description and currency of the stored expense it belongs to.
OwesList(uid) ==
    LET owed == ById(OwedBy(uid))
    IN [i \in 1..Len(owed) |->
          OwesEntry(owed[i], CHOOSE e \in expenses : e.id = owed[i].expense_id)]

\* The owes entry a report t builds next: that of its next split row, with
\* the description and currency of an expense with the id the row names,
\* stored now or read by the report before.
NextOwes(t, entry) ==
    LET x == t.owed[Len(t.owes) + 1]
    IN \E e \in expenses \cup t.held :
          e.id = x.expense_id /\ entry = OwesEntry(x, e)

\* What the report t has read is what is stored: no other request has
\* changed, since t read them, the user, the expenses the user paid, the
\* splits the user owes or the expenses of these splits.
ReadIsStored(t) ==
    /\ \E u \in users : u.id = t.user_id
    /\ t.paid = PaidList(t.user_id)
    /\ t.pc = "expense" =>
          /\ t.owed = ById(OwedBy(t.user_id))
          /\ t.held \subseteq expenses

DecRound2(c) ==
    LET q == c \div 10
        r == c % 10
    IN 10 * (IF r > 5 \/ (r = 5 /\ q % 2 = 1) THEN q + 1 ELSE q)

RECURSIVE DecSumSeq(_)
DecSumSeq(sp) == IF sp = <<>> THEN 0 ELSE Head(sp).amount + DecSumSeq(Tail(sp))

\* The request passes every check but the one of the totals.
PassesOtherChecks(r) ==
    /\ r.absent = {} /\ r.amount.t = "num" /\ r.amount.v > 0 /\ r.splits # <<>>
    /\ \E u \in users : u.id = r.payer_id
    /\ \A i \in 1..Len(r.splits) :
          /\ \E u \in users : u.id = r.splits[i].user_id
          /\ r.splits[i].percentage.t # "str"

\* C2: a request that passes every other check is accepted exactly when the
\* sum of its split amounts and its amount, each rounded to cents, differ
\* by at most 0.01, and is refused with the mismatch error otherwise.
C2_AcceptedIffWithinCent ==
    (resp.op = "create_expense" /\ PassesOtherChecks(req)) =>
        IF Abs(DecRound2(DecSumSeq(req.splits)) - DecRound2(req.amount.v)) <= 10
        THEN resp.status = 201
        ELSE resp.status = 400 /\ resp.body = Error("split totals do not equal amount")

\* C8: every stored expense's payer and every stored split's user is a stored
\* user, and every stored split's expense is a stored expense.
C8_ReferentialIntegrity ==
    /\ \A e \in expenses : \E u \in users : u.id = e.payer_id
    /\ \A x \in splits :
          /\ \E u \in users : u.id = x.user_id
          /\ \E e \in expenses : e.id = x.expense_id

\* C3: create_expense is all-or-nothing.  The rows of an expense reach the
\* store in one step: a step that adds rows is the write of a request in
\* flight, and adds one expense and one split row per entry of the request,
\* with the user and the amount of the entry, and changes no user.  The
\* answer 201 names a stored expense, and the step of any other answer of
\* create_expense changes no table.  No state holds an expense with none or
\* a part of its splits: every expense has split rows, every split row an
\* expense, list_expenses read on a state the store has come to shows no
\* expense without splits, and rows leave the store only all together.
C3_AllOrNothing ==
    [][ LET new_e == expenses' \ expenses
            new_s == ById(splits' \ splits)
        IN /\ (expenses \subseteq expenses' /\ splits \subseteq splits') =>
                /\ Cardinality(new_e) <= 1
                /\ new_e = {} => new_s = <<>>
                /\ \A e \in new_e :
                      \E t \in InFlight("create_expense", "write") :
                         /\ users' = users
                         /\ Len(new_s) = Len(t.r.splits)
                         /\ \A i \in 1..Len(new_s) :
                               /\ new_s[i].expense_id = e.id
                               /\ new_s[i].user_id = t.r.splits[i].user_id
                               /\ new_s[i].amount = FromMilli(t.r.splits[i].amount)
                         /\ thr' = (thr (-) SetToBag({t})) (+)
                                     SetToBag({[op |-> "create_expense",
                                                pc |-> "read", id |-> e.id]})
           /\ (resp' # resp /\ resp'.op = "create_expense") =>
                IF resp'.status = 201
                THEN \E e \in expenses' : e.id = resp'.body.id
                ELSE /\ resp'.status \in {400, 500}
                     /\ UNCHANGED <<users, expenses, splits>>
           /\ \A e \in expenses' : \E x \in splits' : x.expense_id = e.id
           /\ \A x \in splits' : \E e \in expenses' : e.id = x.expense_id
           /\ (expenses' # expenses \/ splits' # splits) =>
                LET view == list_expenses_body(expenses', splits')
                IN \A i \in 1..Len(view) : view[i].splits # <<>>
           /\ (~(expenses \subseteq expenses') \/ ~(splits \subseteq splits')) =>
                (expenses' = {} /\ splits' = {})
      ]_vars

\* C3 witness: a request of two entries has been answered 201, and its
\* expense is stored with its two split rows beside another expense.
C3_Witness ==
    /\ resp.op = "create_expense" /\ resp.status = 201
    /\ \E e \in expenses : e.id = resp.body.id /\ Cardinality(SplitsOf(e)) = 2
    /\ Cardinality(expenses) = 2

\* C10: the step in which a clear_all ends answers "cleared" and leaves the
\* three tables empty, so that list_users, list_expenses and get_balances
\* return nothing on them; a step after which a row of any table is gone
\* leaves all three tables empty; and no request meets rows whose owner is
\* gone: no state has expenses or splits and no users, or splits and no
\* expenses, and no user_report fails on a split whose expense is deleted.
C10_WipeNeverSeenInPart ==
    [][ /\ (\E t \in BagToSet(thr) :
               t.op = "clear_all" /\ thr' = thr (-) SetToBag({t})) =>
             /\ resp'.op = "clear_all" /\ resp'.status = 200
             /\ users' = {} /\ expenses' = {} /\ splits' = {}
             /\ list_users_body(users') = <<>>
             /\ list_expenses_body(expenses', splits') = <<>>
             /\ DOMAIN get_balances_body(users', expenses', splits') = {}
        /\ (~(users \subseteq users') \/ ~(expenses \subseteq expenses')
                \/ ~(splits \subseteq splits')) =>
             (users' = {} /\ expenses' = {} /\ splits' = {})
        /\ users' = {} => (expenses' = {} /\ splits' = {})
        /\ expenses' = {} => splits' = {}
        /\ resp'.op = "user_report" => resp'.status \in {200, 404}
      ]_vars

====
